---- MODULE Spec2Model ----
(***************************************************************************)
(* ShutApp backend (src/app.py): a SQLite store of posts and per-post      *)
(* reaction tallies, the FastAPI endpoints over it and the aiogram bot     *)
(* that publishes posts.  In Spec every handler is one atomic action: each  *)
(* store function opens its own connection and commits (or, on an          *)
(* exception, rolls back by closing without commit) before it returns.     *)
(* SpecInc and SpecRead run the store functions await by await, as tasks   *)
(* of the one event loop; SpecFeed serves /feed from a large store.        *)
(***************************************************************************)
EXTENDS Integers, Sequences, FiniteSets, TLC

VARIABLES
    tables,      \* TRUE once init_db has created posts and reactions
    posts,       \* rows of table posts: [id, text, ts]
    reactions,   \* rows of table reactions: [post_id, type, count]
    now,         \* the wall clock, in milliseconds (time.time() * 1000)
    rolledBack,  \* the wall clock has been set back at least once
    fsm,         \* aiogram FSM storage: chat -> state
    resp,        \* outcome of the last handler: HTTP response or bot reply
    tasks        \* store calls in progress, each on its own connection

vars == <<tables, posts, reactions, now, rolledBack, fsm, resp, tasks>>

------------------------------------------------------------------------------
(* Bounds of the model *)

\* the clock runs over 1 .. MaxClock (so ids do, and at most MaxClock posts exist)
MaxClock == 2

\* at most MaxIncs reaction increments that hit a row
MaxIncs == 3

------------------------------------------------------------------------------
(* Values *)

REACTIONS == {"support", "hug", "sad"}

\* reaction types a client may send: the defined ones and an undefined one
ReactTypes == REACTIONS \cup {"love"}

BOT_SECRET == "secret"

\* Optional values (int | None, str | None): None is the empty set
None == {}
Some(x) == {x}
Val(o) == CHOOSE x \in o : TRUE

\* Python truthiness of an int | None
Truthy(o) == o # None /\ Val(o) # 0

\* texts are sequences of characters; " " stands for whitespace
Texts ==
    { <<>>, <<" ", " ">>, <<"h">>, <<" ", "h", " ">> }

IsSpace(c) == c = " "

RECURSIVE lstrip(_)
lstrip(s) ==
    IF s # <<>> /\ IsSpace(Head(s)) THEN lstrip(Tail(s)) ELSE s

RECURSIVE rstrip(_)
rstrip(s) ==
    IF s # <<>> /\ IsSpace(s[Len(s)]) THEN rstrip(SubSeq(s, 1, Len(s) - 1)) ELSE s

\* faulty variant: only the leading whitespace is removed
strip_LeadingOnly(s) == lstrip(s)

\* str.strip()
strip(s) == rstrip(lstrip(s))

\* a bot message carries a text or none; m.text or "" is its text
TextOf(m_text) == IF m_text = None THEN <<>> ELSE Val(m_text)

MessageTexts == {None} \cup { Some(t) : t \in Texts }

Clock == 1 .. MaxClock

\* cursors a client may send: absent, zero, negative, any id, one past the ids
Cursors == {None} \cup { Some(c) : c \in -1 .. MaxClock + 1 }

\* limits a client may send: negative, zero, one, and enough for every post
Limits == {-1, 0, 1, MaxClock}

\* post ids a client may react to
PostIds == 1 .. MaxClock

Secrets == { None, Some(BOT_SECRET), Some("wrong") }

Chats == {"private", "group"}

StateNone == "None"
NewPost_text == "NewPost:text"

Min(a, b) == IF a <= b THEN a ELSE b

------------------------------------------------------------------------------
(* Store (src/app.py, DATABASE) *)

\* posts.id is the PRIMARY KEY
PostIdsOf(P) == { r.id : r \in P }

\* reactions has PRIMARY KEY(post_id, type)
HasTally(R, pid, t) == \E r \in R : r.post_id = pid /\ r.type = t

\* int(time.time() * 1000) and int(time.time())
NowMs == now
NowSec == now \div 1000

\* faulty variant: the seeding loop misses the last kind
SeedTallies_MissesSad(R, pid) ==
    R \cup { [post_id |-> pid, type |-> t, count |-> 0] :
                t \in { k \in {"support", "hug"} : ~HasTally(R, pid, k) } }

\* INSERT OR IGNORE INTO reactions(post_id, type, count) VALUES(pid, t, 0), for t in REACTIONS
SeedTallies(R, pid) ==
    R \cup { [post_id |-> pid, type |-> t, count |-> 0] :
                t \in { k \in REACTIONS : ~HasTally(R, pid, k) } }

\* add_post: the outcome and the committed tables.  An exception leaves the
\* connection without commit, so nothing of the transaction is kept.
add_post(text) ==
    LET pid == NowMs
        ts == NowSec
    IN  IF ~tables
        THEN [error |-> "OperationalError", id |-> pid, posts |-> posts, reactions |-> reactions]
        ELSE IF pid \in PostIdsOf(posts)
        THEN [error |-> "IntegrityError", id |-> pid, posts |-> posts, reactions |-> reactions]
        ELSE [error |-> "", id |-> pid,
              posts |-> posts \cup { [id |-> pid, text |-> text, ts |-> ts] },
              reactions |-> SeedTallies(reactions, pid)]

\* faulty variant: ORDER BY id ASC
RECURSIVE OrderByIdAsc(_)
OrderByIdAsc(S) ==
    IF S = {} THEN <<>>
    ELSE LET m == CHOOSE r \in S : \A q \in S : q.id >= r.id
         IN  <<m>> \o OrderByIdAsc(S \ {m})

\* ORDER BY id DESC
RECURSIVE OrderByIdDesc(_)
OrderByIdDesc(S) ==
    IF S = {} THEN <<>>
    ELSE LET m == CHOOSE r \in S : \A q \in S : q.id <= r.id
         IN  <<m>> \o OrderByIdDesc(S \ {m})

\* LIMIT n: SQLite returns every row when n is negative
SqlLimit(seq, n) ==
    IF n < 0 THEN seq ELSE SubSeq(seq, 1, Min(n, Len(seq)))

\* faulty variant: WHERE id <= ? in place of WHERE id < ?
FeedRows_Inclusive(P, cursor, limit) ==
    IF Truthy(cursor)
    THEN SqlLimit(OrderByIdDesc({ r \in P : r.id <= Val(cursor) }), limit)
    ELSE SqlLimit(OrderByIdDesc(P), limit)

\* the rows get_feed selects from table posts P: "if cursor:" takes the
\* WHERE id < ? branch
FeedRows(P, cursor, limit) ==
    IF Truthy(cursor)
    THEN SqlLimit(OrderByIdDesc({ r \in P : r.id < Val(cursor) }), limit)
    ELSE SqlLimit(OrderByIdDesc(P), limit)

\* {t: c for t, c in rrows} over SELECT type, count FROM reactions WHERE post_id = pid
ReactionsOf(R, pid) ==
    LET rrows == { r \in R : r.post_id = pid }
    IN  [ t \in { r.type : r \in rrows } |->
            (CHOOSE r \in rrows : r.type = t).count ]

\* out.append({"id": pid, "text": text, "ts": ts, "reactions": {...}})
FeedItem(R, row) ==
    [id |-> row.id, text |-> row.text, ts |-> row.ts, reactions |-> ReactionsOf(R, row.id)]

FeedItems(R, rows) == [ i \in 1 .. Len(rows) |-> FeedItem(R, rows[i]) ]

\* get_feed on a database whose tables posts and reactions hold P and R
get_feed(P, R, cursor, limit) == FeedItems(R, FeedRows(P, cursor, limit))

\* faulty variant: the UPDATE forgets AND type = ?
UpdateCount_AnyType(R, post_id, rtype) ==
    { IF r.post_id = post_id
      THEN [r EXCEPT !.count = @ + 1] ELSE r : r \in R }

\* faulty variant: an upsert, which creates the row that is missing
UpdateCount_Upsert(R, post_id, rtype) ==
    IF HasTally(R, post_id, rtype)
    THEN { IF r.post_id = post_id /\ r.type = rtype
           THEN [r EXCEPT !.count = @ + 1] ELSE r : r \in R }
    ELSE R \cup { [post_id |-> post_id, type |-> rtype, count |-> 1] }

\* UPDATE reactions SET count = count + 1 WHERE post_id = ? AND type = ?
UpdateCount(R, post_id, rtype) ==
    { IF r.post_id = post_id /\ r.type = rtype
      THEN [r EXCEPT !.count = @ + 1] ELSE r : r \in R }

\* faulty variant: no check of rtype against REACTIONS
inc_reaction_Unchecked(post_id, rtype) ==
    [error |-> "", reactions |-> UpdateCount(reactions, post_id, rtype)]

\* inc_reaction: the outcome and the committed tally table
inc_reaction(post_id, rtype) ==
    IF rtype \notin REACTIONS
    THEN [error |-> "ValueError", reactions |-> reactions]
    ELSE [error |-> "", reactions |-> UpdateCount(reactions, post_id, rtype)]

\* increments that hit a row so far (the tallies start at 0)
TotalCount ==
    LET RECURSIVE Sum(_)
        Sum(S) == IF S = {} THEN 0
                  ELSE LET r == CHOOSE x \in S : TRUE IN r.count + Sum(S \ {r})
    IN  Sum(reactions)

------------------------------------------------------------------------------
(* API (src/app.py, FastAPI endpoints).  Requests are served once the      *)
(* lifespan startup, which awaits init_db, has finished.                    *)

\* the largest limit api_feed passes on: min(limit, 50)
FeedLimitCap == 50

\* what a handler answers: the HTTP status (0 for a bot handler), the error
\* detail or the reply text, the id returned by /bot/post, the list /feed returns
Response(op, status, detail, id, feed) ==
    [op |-> op, status |-> status, detail |-> detail, id |-> id, feed |-> feed]

\* faulty variant: DROP TABLE posts before CREATE TABLE
init_db_DropsPosts ==
    /\ tables' = TRUE
    /\ posts' = {}
    /\ resp' = Response("init_db", 0, "", 0, <<>>)
    /\ UNCHANGED <<reactions, now, rolledBack, fsm, tasks>>

\* faulty variant: the tally table is created anew, all counts lost
init_db_ResetsTallies ==
    /\ tables' = TRUE
    /\ reactions' = { [r EXCEPT !.count = 0] : r \in reactions }
    /\ resp' = Response("init_db", 0, "", 0, <<>>)
    /\ UNCHANGED <<posts, now, rolledBack, fsm, tasks>>

\* CREATE TABLE IF NOT EXISTS posts / reactions
init_db ==
    /\ tables' = TRUE
    /\ resp' = Response("init_db", 0, "", 0, <<>>)
    /\ UNCHANGED <<posts, reactions, now, rolledBack, fsm, tasks>>

api_feed(cursor, limit) ==
    /\ tables
    /\ resp' = Response("api_feed", 200, "", 0, get_feed(posts, reactions, cursor, Min(limit, FeedLimitCap)))
    /\ UNCHANGED <<tables, posts, reactions, now, rolledBack, fsm, tasks>>

api_bot_post(text, x_bot_secret) ==
    /\ tables
    /\ IF x_bot_secret # Some(BOT_SECRET)
       THEN /\ resp' = Response("api_bot_post", 401, "bad secret", 0, <<>>)
            /\ UNCHANGED <<posts, reactions>>
       ELSE IF strip(text) = <<>>
       THEN /\ resp' = Response("api_bot_post", 400, "empty", 0, <<>>)
            /\ UNCHANGED <<posts, reactions>>
       ELSE LET r == add_post(strip(text))
            IN  /\ posts' = r.posts
                /\ reactions' = r.reactions
                /\ resp' = IF r.error = ""
                           THEN Response("api_bot_post", 200, "", r.id, <<>>)
                           ELSE Response("api_bot_post", 500, r.error, 0, <<>>)
    /\ UNCHANGED <<tables, now, rolledBack, fsm, tasks>>

api_react(post_id, rtype) ==
    /\ tables
    /\ HasTally(reactions, post_id, rtype) /\ rtype \in REACTIONS => TotalCount < MaxIncs
    /\ LET r == inc_reaction(post_id, rtype)
       IN  /\ reactions' = r.reactions
           /\ resp' = IF r.error = "ValueError"
                      THEN Response("api_react", 400, "bad reaction", 0, <<>>)
                      ELSE Response("api_react", 200, "", 0, <<>>)
    /\ UNCHANGED <<tables, posts, now, rolledBack, fsm, tasks>>

------------------------------------------------------------------------------
(* BOT (src/app.py, aiogram handlers).  The dispatcher offers a message to  *)
(* the handlers in registration order and runs the first whose filter       *)
(* matches.  A message is its chat type, its command and its text.          *)

Commands == {"/start", "/newpost", ""}

Reply(op, text) == Response(op, 0, text, 0, <<>>)

\* @dp.message(CommandStart())
start(chat, cmd) ==
    /\ cmd = "/start"
    /\ resp' = Reply("start", "greeting")
    /\ UNCHANGED <<tables, posts, reactions, now, rolledBack, fsm, tasks>>

\* faulty variant: no test of m.chat.type
newpost_AnyChat(chat, cmd) ==
    /\ cmd = "/newpost"
    /\ fsm' = [fsm EXCEPT ![chat] = NewPost_text]
    /\ resp' = Reply("newpost", "write the text")
    /\ UNCHANGED <<tables, posts, reactions, now, rolledBack, tasks>>

\* @dp.message(F.text == "/newpost")
newpost(chat, cmd) ==
    /\ cmd = "/newpost"
    /\ IF chat # "private"
       THEN /\ resp' = Reply("newpost", "private only")
            /\ UNCHANGED fsm
       ELSE /\ fsm' = [fsm EXCEPT ![chat] = NewPost_text]
            /\ resp' = Reply("newpost", "write the text")
    /\ UNCHANGED <<tables, posts, reactions, now, rolledBack, tasks>>

\* faulty variant: state.clear() is awaited before add_post
save_post_ClearsFirst(chat, cmd, m_text) ==
    /\ cmd = ""
    /\ fsm[chat] = NewPost_text
    /\ LET text == strip(TextOf(m_text))
       IN  IF text = <<>>
           THEN /\ resp' = Reply("save_post", "empty")
                /\ UNCHANGED <<posts, reactions, fsm>>
           ELSE LET r == add_post(text)
                IN  /\ fsm' = [fsm EXCEPT ![chat] = StateNone]
                    /\ posts' = r.posts
                    /\ reactions' = r.reactions
                    /\ resp' = Reply("save_post", IF r.error = "" THEN "published" ELSE r.error)
    /\ UNCHANGED <<tables, now, rolledBack, tasks>>

\* @dp.message(NewPost.text); m_text is m.text, None for a message without text
save_post(chat, cmd, m_text) ==
    /\ cmd = ""
    /\ fsm[chat] = NewPost_text
    /\ LET text == strip(TextOf(m_text))
       IN  IF text = <<>>
           THEN /\ resp' = Reply("save_post", "empty")
                /\ UNCHANGED <<posts, reactions, fsm>>
           ELSE LET r == add_post(text)
                IN  /\ posts' = r.posts
                    /\ reactions' = r.reactions
                    /\ IF r.error = ""
                       THEN /\ fsm' = [fsm EXCEPT ![chat] = StateNone]
                            /\ resp' = Reply("save_post", "published")
                       ELSE \* the exception leaves the handler before state.clear()
                            /\ UNCHANGED fsm
                            /\ resp' = Reply("save_post", r.error)
    /\ UNCHANGED <<tables, now, rolledBack, tasks>>

\* @dp.message()
fallback(chat, cmd) ==
    /\ cmd = ""
    /\ fsm[chat] # NewPost_text
    /\ resp' = Reply("fallback", "use /newpost")
    /\ UNCHANGED <<tables, posts, reactions, now, rolledBack, fsm, tasks>>

------------------------------------------------------------------------------
(* The wall clock read by add_post *)

Tick ==
    /\ now < MaxClock
    /\ now' = now + 1
    /\ UNCHANGED <<tables, posts, reactions, rolledBack, fsm, resp, tasks>>

\* the system clock is set back (NTP step, manual change)
ClockRollback ==
    /\ now > 1
    /\ now' = now - 1
    /\ rolledBack' = TRUE
    /\ UNCHANGED <<tables, posts, reactions, fsm, resp, tasks>>

------------------------------------------------------------------------------
(* Store calls, await by await.  Each call opens its own connection, and    *)
(* the event loop may run another task at every await (connect, execute,    *)
(* execute_fetchall, commit).  posts and reactions are the database file:   *)
(* the committed rows, which are what every SELECT reads.  A connection     *)
(* that has written holds the write lock of the file and keeps its changed  *)
(* tables to itself until it commits; the first write statement of another  *)
(* connection waits while the lock is held.                                 *)

\* the tasks that call inc_reaction, each once
Reactors == 1 .. MaxIncs

\* for t in REACTIONS
ReactionOrder == <<"support", "hug", "sad">>

\* a task that is in no store call
IdleInc == [pc |-> "idle", post_id |-> 0, rtype |-> "", reactions |-> {}]
IdleAdd ==
    [pc |-> "idle", pid |-> 0, ts |-> 0, text |-> <<>>, seeded |-> 0,
     posts |-> {}, reactions |-> {}]
IdleFeed == [pc |-> "idle", cursor |-> None, limit |-> 0, rows |-> <<>>, out |-> <<>>]

IdleTasks == [inc |-> [r \in Reactors |-> IdleInc], add |-> IdleAdd, feed |-> IdleFeed]

\* faulty variant: writers do not lock the database file
CanWrite_NoLocking == TRUE

\* no connection holds the write lock: none is between its first write
\* statement and its commit
CanWrite ==
    /\ tasks.add.pc \notin {"seed", "commit"}
    /\ \A r \in Reactors : tasks.inc[r].pc # "commit"

\* inc_reaction, up to "async with aiosqlite.connect(DB_PATH) as db"
inc_reaction_begin(r, post_id, rtype) ==
    /\ tasks.inc[r].pc = "idle"
    /\ tasks' = [tasks EXCEPT !.inc[r] =
                    [IdleInc EXCEPT !.pc = IF rtype \notin REACTIONS THEN "ValueError" ELSE "update",
                                    !.post_id = post_id,
                                    !.rtype = rtype]]
    /\ UNCHANGED <<tables, posts, reactions, now, rolledBack, fsm, resp>>

\* await db.execute("UPDATE reactions SET count = count + 1 WHERE ...")
inc_reaction_update(r) ==
    /\ tasks.inc[r].pc = "update"
    /\ CanWrite
    /\ tasks' = [tasks EXCEPT !.inc[r].pc = "commit",
                              !.inc[r].reactions =
                                  UpdateCount(reactions, tasks.inc[r].post_id, tasks.inc[r].rtype)]
    /\ UNCHANGED <<tables, posts, reactions, now, rolledBack, fsm, resp>>

\* await db.commit()
inc_reaction_commit(r) ==
    /\ tasks.inc[r].pc = "commit"
    /\ reactions' = tasks.inc[r].reactions
    /\ tasks' = [tasks EXCEPT !.inc[r].pc = "done", !.inc[r].reactions = {}]
    /\ UNCHANGED <<tables, posts, now, rolledBack, fsm, resp>>

\* add_post, up to "async with aiosqlite.connect(DB_PATH) as db"
add_post_begin(text) ==
    /\ tasks.add.pc = "idle"
    /\ tasks' = [tasks EXCEPT !.add =
                    [IdleAdd EXCEPT !.pc = "insert", !.pid = NowMs, !.ts = NowSec, !.text = text]]
    /\ UNCHANGED <<tables, posts, reactions, now, rolledBack, fsm, resp>>

\* faulty variant: the connection is in autocommit mode, the post row is
\* committed by the INSERT itself
add_post_insert_Autocommit ==
    /\ tasks.add.pc = "insert"
    /\ CanWrite
    /\ LET row == [id |-> tasks.add.pid, text |-> tasks.add.text, ts |-> tasks.add.ts]
       IN  IF ~tables \/ tasks.add.pid \in PostIdsOf(posts)
           THEN /\ tasks' = [tasks EXCEPT !.add = IdleAdd]
                /\ resp' = Response("add_post", 0,
                                    IF ~tables THEN "OperationalError" ELSE "IntegrityError", 0, <<>>)
                /\ UNCHANGED posts
           ELSE /\ tasks' = [tasks EXCEPT !.add.pc = "seed",
                                          !.add.posts = posts \cup {row},
                                          !.add.reactions = reactions]
                /\ posts' = posts \cup {row}
                /\ UNCHANGED resp
    /\ UNCHANGED <<tables, reactions, now, rolledBack, fsm>>

\* await db.execute("INSERT INTO posts(id, text, ts) VALUES(?,?,?)"): the
\* first write of the transaction; an exception closes the connection
add_post_insert ==
    /\ tasks.add.pc = "insert"
    /\ CanWrite
    /\ LET row == [id |-> tasks.add.pid, text |-> tasks.add.text, ts |-> tasks.add.ts]
       IN  IF ~tables \/ tasks.add.pid \in PostIdsOf(posts)
           THEN /\ tasks' = [tasks EXCEPT !.add = IdleAdd]
                /\ resp' = Response("add_post", 0,
                                    IF ~tables THEN "OperationalError" ELSE "IntegrityError", 0, <<>>)
           ELSE /\ tasks' = [tasks EXCEPT !.add.pc = "seed",
                                          !.add.posts = posts \cup {row},
                                          !.add.reactions = reactions]
                /\ UNCHANGED resp
    /\ UNCHANGED <<tables, posts, reactions, now, rolledBack, fsm>>

\* INSERT OR IGNORE INTO reactions(post_id, type, count) VALUES(pid, t, 0)
InsertOrIgnore(R, pid, t) ==
    IF HasTally(R, pid, t) THEN R
    ELSE R \cup { [post_id |-> pid, type |-> t, count |-> 0] }

\* one round of "for t in REACTIONS: await db.execute(INSERT OR IGNORE ...)"
add_post_seed ==
    /\ tasks.add.pc = "seed"
    /\ LET i == tasks.add.seeded + 1
       IN  tasks' = [tasks EXCEPT
                        !.add.reactions = InsertOrIgnore(@, tasks.add.pid, ReactionOrder[i]),
                        !.add.seeded = i,
                        !.add.pc = IF i = Len(ReactionOrder) THEN "commit" ELSE "seed"]
    /\ UNCHANGED <<tables, posts, reactions, now, rolledBack, fsm, resp>>

\* await db.commit(); return pid
add_post_commit ==
    /\ tasks.add.pc = "commit"
    /\ posts' = tasks.add.posts
    /\ reactions' = tasks.add.reactions
    /\ resp' = Response("add_post", 0, "", tasks.add.pid, <<>>)
    /\ tasks' = [tasks EXCEPT !.add = IdleAdd]
    /\ UNCHANGED <<tables, now, rolledBack, fsm>>

\* get_feed, up to "async with aiosqlite.connect(DB_PATH) as db"
get_feed_begin(cursor, limit) ==
    /\ tasks.feed.pc = "idle"
    /\ tasks' = [tasks EXCEPT !.feed =
                    [IdleFeed EXCEPT !.pc = "rows", !.cursor = cursor, !.limit = limit]]
    /\ UNCHANGED <<tables, posts, reactions, now, rolledBack, fsm, resp>>

\* rows = await db.execute_fetchall("SELECT id, text, ts FROM posts ...")
get_feed_rows ==
    /\ tasks.feed.pc = "rows"
    /\ tasks' = [tasks EXCEPT !.feed.pc = "reactions",
                              !.feed.rows = FeedRows(posts, tasks.feed.cursor, tasks.feed.limit)]
    /\ UNCHANGED <<tables, posts, reactions, now, rolledBack, fsm, resp>>

\* one round of "for pid, text, ts in rows": rrows = await
\* db.execute_fetchall("SELECT type, count FROM reactions ..."); out.append(...)
get_feed_reactions ==
    /\ tasks.feed.pc = "reactions"
    /\ Len(tasks.feed.out) < Len(tasks.feed.rows)
    /\ tasks' = [tasks EXCEPT !.feed.out =
                    Append(@, FeedItem(reactions, tasks.feed.rows[Len(@) + 1]))]
    /\ UNCHANGED <<tables, posts, reactions, now, rolledBack, fsm, resp>>

\* return out
get_feed_return ==
    /\ tasks.feed.pc = "reactions"
    /\ Len(tasks.feed.out) = Len(tasks.feed.rows)
    /\ resp' = Response("get_feed", 0, "", 0, tasks.feed.out)
    /\ tasks' = [tasks EXCEPT !.feed = IdleFeed]
    /\ UNCHANGED <<tables, posts, reactions, now, rolledBack, fsm>>

------------------------------------------------------------------------------

Init ==
    /\ tables = FALSE
    /\ posts = {}
    /\ reactions = {}
    /\ now = 1
    /\ rolledBack = FALSE
    /\ fsm = [c \in Chats |-> StateNone]
    /\ resp = Response("", 0, "", 0, <<>>)
    /\ tasks = IdleTasks

Next ==
    \/ init_db
    \/ \E cursor \in Cursors, limit \in Limits : api_feed(cursor, limit)
    \/ \E text \in Texts, secret \in Secrets : api_bot_post(text, secret)
    \/ \E post_id \in PostIds, rtype \in ReactTypes : api_react(post_id, rtype)
    \/ \E chat \in Chats, cmd \in Commands : start(chat, cmd)
    \/ \E chat \in Chats, cmd \in Commands : newpost(chat, cmd)
    \/ \E chat \in Chats, cmd \in Commands, m_text \in MessageTexts :
          save_post(chat, cmd, m_text)
    \/ \E chat \in Chats, cmd \in Commands : fallback(chat, cmd)
    \/ Tick
    \/ ClockRollback

Spec == Init /\ [][Next]_vars

TypeOK ==
    /\ tables \in BOOLEAN
    /\ now \in Clock
    /\ rolledBack \in BOOLEAN
    /\ \A r \in posts : r.id \in Clock /\ r.text \in { strip(t) : t \in Texts }
    /\ \A r \in reactions : r.count \in 0 .. MaxIncs

------------------------------------------------------------------------------
(* Steps, as the claims speak of them *)

\* a step in which createPost is called with the trimmed, non-empty `text`
CreatePostCall(text) ==
    /\ text # <<>>
    /\ \/ \E raw \in Texts :
            strip(raw) = text /\ api_bot_post(raw, Some(BOT_SECRET))
       \/ \E raw \in Texts, chat \in Chats :
            strip(raw) = text /\ save_post(chat, "", Some(raw))

\* the row a step adds to posts
NewPost == CHOOSE r \in posts' : r \notin posts

Ids(feed) == [ i \in 1 .. Len(feed) |-> feed[i].id ]

ZeroTallies == [ k \in REACTIONS |-> 0 ]

\* the feed's first element is post `id` with `text` and all three kinds at 0
StartsWith(feed, id, text) ==
    /\ Len(feed) >= 1
    /\ Head(feed).id = id
    /\ Head(feed).text = text
    /\ Head(feed).reactions = ZeroTallies

------------------------------------------------------------------------------
\* C1: in every reachable state every post has exactly one tally row for each
\* of support, hug and sad, and no tally row has any other kind.
C1_TallyRowsPerPost ==
    /\ \A p \in posts, k \in REACTIONS :
          Cardinality({ r \in reactions : r.post_id = p.id /\ r.type = k }) = 1
    /\ \A r \in reactions : r.type \in REACTIONS

\* two posts exist, tallies have been incremented, and the last call was a
\* react call that failed
C1_Witness ==
    /\ Cardinality(posts) = 2
    /\ TotalCount > 0
    /\ resp.op = "api_react" /\ resp.status = 400

------------------------------------------------------------------------------
\* C2: for every cursor X and limit, a step that creates posts with ids > X
\* leaves the ids listFeed(cursor = X) returns as they were: no newer post is
\* returned, no post with id < X is omitted or duplicated.
C2_CursorStableUnderInserts ==
    [][ posts' # posts =>
        \A cursor \in Cursors \ {None}, limit \in Limits :
          (\A r \in posts' \ posts : r.id > Val(cursor))
          => Ids(get_feed(posts', reactions', cursor, limit))
                = Ids(get_feed(posts, reactions, cursor, limit)) ]_vars

------------------------------------------------------------------------------
\* C3: while the clock has never gone back, every createPost call on the
\* initialised store returns an id strictly larger than the id of every post
\* created before it: no call fails on an id collision.
C3_MonotonicIds ==
    [][ (tables /\ ~rolledBack /\ resp'.op \in {"api_bot_post", "save_post"}) =>
        \A text \in { strip(t) : t \in Texts } :
          CreatePostCall(text)
          => /\ posts' # posts
             /\ \A r \in posts : r.id < NewPost.id ]_vars

------------------------------------------------------------------------------
\* C4 as stated: right after any successful createPost(text), listFeed with no
\* cursor and limit >= 1 has the new post first, with that text and with all
\* three kinds at 0.
C4_NewPostFirst ==
    [][ posts' # posts =>
        \A text \in { strip(t) : t \in Texts } :
          CreatePostCall(text)
          => \A limit \in { l \in Limits : l >= 1 } :
                StartsWith(get_feed(posts', reactions', None, limit), NewPost.id, text) ]_vars

\* C4 amended: the same, for a createPost whose id is larger than the id of
\* every post already stored (as it is while the clock has not gone back).
C4_NewestPostFirst ==
    [][ (posts' # posts /\ \A r \in posts : r.id < NewPost.id) =>
        \A text \in { strip(t) : t \in Texts } :
          CreatePostCall(text)
          => \A limit \in { l \in Limits : l >= 1 } :
                StartsWith(get_feed(posts', reactions', None, limit), NewPost.id, text) ]_vars

\* a post has just been created on top of an older post that has reactions
C4_Witness ==
    /\ resp.op = "api_bot_post" /\ resp.status = 200
    /\ \E r \in posts : r.id < resp.id
    /\ \A r \in posts : r.id <= resp.id
    /\ TotalCount > 0

------------------------------------------------------------------------------
\* the tally rows after n sequential incrementReaction(post_id, rtype) calls
RECURSIVE AfterIncrements(_, _, _, _)
AfterIncrements(R, post_id, rtype, n) ==
    IF n = 0 THEN R
    ELSE AfterIncrements(UpdateCount(R, post_id, rtype), post_id, rtype, n - 1)

CountOf(R, post_id, rtype) ==
    (CHOOSE r \in R : r.post_id = post_id /\ r.type = rtype).count

\* tally table R1 is R0 with the (post_id, rtype) count raised by n and every
\* other row as it was
RaisedBy(R0, R1, post_id, rtype, n) ==
    /\ CountOf(R1, post_id, rtype) = CountOf(R0, post_id, rtype) + n
    /\ { r \in R1 : ~(r.post_id = post_id /\ r.type = rtype) }
         = { r \in R0 : ~(r.post_id = post_id /\ r.type = rtype) }
    /\ Cardinality(R1) = Cardinality(R0)

\* C5: for every existing post and valid kind, three sequential
\* incrementReaction calls raise that tally by exactly 3 and leave every other
\* tally as it was; and each such call, made through the react endpoint,
\* raises that tally by exactly 1 and changes no other tally and no post row.
C5_IncrementsAddUp ==
    /\ [](\A p \in posts, rtype \in REACTIONS :
            RaisedBy(reactions, AfterIncrements(reactions, p.id, rtype, 3),
                     p.id, rtype, 3))
    /\ [][ resp'.op = "api_react" =>
           \A post_id \in PostIds, rtype \in REACTIONS :
             (HasTally(reactions, post_id, rtype) /\ api_react(post_id, rtype))
             => /\ posts' = posts
                /\ RaisedBy(reactions, reactions', post_id, rtype, 1) ]_vars

\* three react calls have raised one tally of a post to 3, next to another post
C5_Witness ==
    /\ resp.op = "api_react" /\ resp.status = 200
    /\ Cardinality(posts) = 2
    /\ \E r \in reactions : r.count = 3

------------------------------------------------------------------------------
\* C6: incrementReaction with a kind outside support, hug, sad fails with the
\* invalid-kind error for every post id, existing or not, and changes no row;
\* the react endpoint answers 400.
C6_InvalidKindRejected ==
    [][ resp'.op = "api_react" =>
        \A post_id \in PostIds, rtype \in ReactTypes \ REACTIONS :
          api_react(post_id, rtype)
          => /\ inc_reaction(post_id, rtype).error = "ValueError"
             /\ resp'.status = 400
             /\ resp'.detail = "bad reaction"
             /\ posts' = posts
             /\ reactions' = reactions ]_vars

\* a react call was refused while posts with incremented tallies exist
C6_Witness ==
    /\ resp.op = "api_react" /\ resp.status = 400
    /\ posts # {}
    /\ PostIdsOf(posts) # PostIds
    /\ TotalCount > 0

------------------------------------------------------------------------------
\* C7: incrementReaction with a valid kind but no (postId, kind) row raises no
\* error and creates or changes no tally or post row; the react endpoint
\* answers 200.
C7_MissingRowNoOp ==
    [][ resp'.op = "api_react" =>
        \A post_id \in PostIds, rtype \in REACTIONS :
          (~HasTally(reactions, post_id, rtype) /\ api_react(post_id, rtype))
          => /\ inc_reaction(post_id, rtype).error = ""
             /\ resp'.status = 200
             /\ posts' = posts
             /\ reactions' = reactions ]_vars

\* a react call with a valid kind was acknowledged although not every post id
\* it may name has tally rows, and no tally was ever raised
C7_Witness ==
    /\ resp.op = "api_react" /\ resp.status = 200
    /\ posts # {}
    /\ PostIdsOf(posts) # PostIds
    /\ TotalCount = 0

------------------------------------------------------------------------------
\* C8: POST /bot/post with a missing or wrong secret answers 401 and creates
\* no post or tally row, whatever the text; with the right secret and a text
\* that is non-empty once trimmed it creates exactly one post, whose text is
\* the trimmed text.
C8_BotPostGate ==
    [][ resp'.op = "api_bot_post" =>
        \A text \in Texts, secret \in Secrets :
          api_bot_post(text, secret)
          => IF secret # Some(BOT_SECRET)
             THEN resp'.status = 401 /\ posts' = posts /\ reactions' = reactions
             ELSE strip(text) # <<>>
                  => \E r \in posts' :
                        /\ r \notin posts
                        /\ posts' = posts \cup {r}
                        /\ r.text = strip(text) ]_vars

------------------------------------------------------------------------------
\* the ids seen by a client that pages through the feed: listFeed without a
\* cursor, then with cursor = the id of the last post of the previous page,
\* until a page is empty (or `fuel` pages were fetched)
RECURSIVE PageThrough(_, _, _)
PageThrough(cursor, limit, fuel) ==
    LET page == Ids(get_feed(posts, reactions, cursor, limit))
    IN  IF page = <<>> \/ fuel = 0 THEN <<>>
        ELSE page \o PageThrough(Some(page[Len(page)]), limit, fuel - 1)

\* C9: paging through the feed with a fixed limit >= 1 and no inserts in
\* between returns every stored post exactly once, in strictly descending id
\* order.
C9_PagingComplete ==
    \A limit \in { l \in Limits : l >= 1 } :
        LET ids == PageThrough(None, limit, Cardinality(posts) + 1)
        IN  /\ Len(ids) = Cardinality(posts)
            /\ { ids[i] : i \in 1 .. Len(ids) } = PostIdsOf(posts)
            /\ \A i \in 1 .. Len(ids) - 1 : ids[i] > ids[i + 1]

\* a client has just fetched a page that holds an older post only: a second page
C9_Witness ==
    /\ resp.op = "api_feed"
    /\ Len(resp.feed) = 1
    /\ \E r \in posts : r.id > resp.feed[1].id
    /\ Cardinality(posts) = 2

------------------------------------------------------------------------------
\* C10: whenever GET /feed is given a cursor (any integer, zero included),
\* every post it returns has an id strictly less than the cursor.
C10_CursorBoundsIds ==
    [][ resp'.op = "api_feed" =>
        \A cursor \in Cursors \ {None}, limit \in Limits :
          api_feed(cursor, limit)
          => \A i \in 1 .. Len(resp'.feed) : resp'.feed[i].id < Val(cursor) ]_vars

------------------------------------------------------------------------------
(* GET /feed over a store that holds more posts than the clamp of api_feed  *)
(* lets through.  The store is drawn as n createPost calls at the clock     *)
(* readings 1 .. n leave it; the requests are those of api_feed.            *)

\* one post more than min(limit, 50) can return
MaxFeedPosts == FeedLimitCap + 1

\* the tables after createPost at each of the clock readings 1 .. n
StoreOf(n) ==
    [posts     |-> { [id |-> i, text |-> <<"h">>, ts |-> i \div 1000] : i \in 1 .. n },
     reactions |-> { [post_id |-> i, type |-> t, count |-> 0] : i \in 1 .. n, t \in REACTIONS }]

\* limits around the clamp: negative, zero, one, the cap, above the cap
FeedLimits == {-1, 0, 1, FeedLimitCap, FeedLimitCap + 1}

\* no cursor, the zero cursor, a cursor inside and one above the ids
FeedCursors == { None, Some(0), Some(2), Some(MaxFeedPosts + 1) }

InitFeed ==
    /\ tables = TRUE
    /\ \E n \in 0 .. MaxFeedPosts :
          /\ posts = StoreOf(n).posts
          /\ reactions = StoreOf(n).reactions
          /\ now = n + 1
    /\ rolledBack = FALSE
    /\ fsm = [c \in Chats |-> StateNone]
    /\ resp = Response("", 0, "", 0, <<>>)
    /\ tasks = IdleTasks

NextFeed ==
    \E cursor \in FeedCursors, limit \in FeedLimits : api_feed(cursor, limit)

SpecFeed == InitFeed /\ [][NextFeed]_vars

\* C11: whatever integer the limit parameter is (above 50, zero, negative)
\* and whatever the store holds, the list GET /feed returns has at most 50
\* items.
C11_FeedAtMost50 ==
    resp.op = "api_feed" => Len(resp.feed) <= FeedLimitCap

------------------------------------------------------------------------------
\* C12: in every reachable state every stored post has a text that is
\* non-empty and neither starts nor ends with whitespace; and no step that
\* changes the post or tally rows is a POST /bot/post request or a bot message
\* whose trimmed text is empty.
C12_StoredTextTrimmed ==
    /\ [](\A r \in posts :
            /\ r.text # <<>>
            /\ ~IsSpace(Head(r.text))
            /\ ~IsSpace(r.text[Len(r.text)]))
    /\ [][ (posts' # posts \/ reactions' # reactions) =>
           /\ \A text \in Texts, secret \in Secrets :
                strip(text) = <<>> => ~api_bot_post(text, secret)
           /\ \A chat \in Chats, m_text \in MessageTexts :
                strip(TextOf(m_text)) = <<>> => ~save_post(chat, "", m_text) ]_vars

\* the bot has just refused an empty text while two posts are stored
C12_Witness ==
    /\ resp.op = "save_post" /\ resp.detail = "empty"
    /\ Cardinality(posts) = 2

------------------------------------------------------------------------------
\* C13: no step ever changes or deletes a post: every post row stored before a
\* step (createPost, a failed createPost included, listFeed, incrementReaction,
\* initialize) is stored after it with the same id, text and timestamp, and
\* no two rows ever share an id.
C13_PostsImmutable ==
    /\ [](\A a, b \in posts : a.id = b.id => a = b)
    /\ [][ posts \subseteq posts' ]_vars

\* a createPost has just failed on the id of a post that is stored
C13_Witness ==
    /\ resp.op = "api_bot_post" /\ resp.status = 500
    /\ resp.detail = "IntegrityError"
    /\ \E r \in posts : r.id = now

------------------------------------------------------------------------------
(* Agent session: Idle is the FSM state None, AwaitingText is NewPost.text *)

\* the bot receives a message that is no command: the dispatcher runs
\* save_post in state NewPost.text and fallback otherwise
TextMessage(chat, m_text) ==
    save_post(chat, "", m_text) \/ fallback(chat, "")

\* the step stores exactly one new post, whose text is `text`
PublishesOne(text) ==
    \E r \in posts' : r \notin posts /\ posts' = posts \cup {r} /\ r.text = text

\* C14: on the initialised store, a session enters AwaitingText only by a
\* "new post" command in a private chat; a text message received in
\* AwaitingText publishes exactly one post with the trimmed text and moves the
\* session to Idle when the trimmed text is non-empty, and publishes nothing
\* and leaves the session in AwaitingText when it is empty; a text message
\* received in Idle publishes nothing.
C14_SessionPublishes ==
    [][ tables =>
        /\ \A chat \in Chats :
             (fsm[chat] # NewPost_text /\ fsm'[chat] = NewPost_text)
             => chat = "private" /\ newpost(chat, "/newpost")
        /\ resp'.op \in {"save_post", "fallback"} =>
             \A chat \in Chats, m_text \in MessageTexts :
               TextMessage(chat, m_text)
               => IF fsm[chat] # NewPost_text
                  THEN posts' = posts /\ fsm'[chat] = fsm[chat]
                  ELSE IF strip(TextOf(m_text)) = <<>>
                  THEN posts' = posts /\ fsm'[chat] = NewPost_text
                  ELSE PublishesOne(strip(TextOf(m_text))) /\ fsm'[chat] = StateNone ]_vars

------------------------------------------------------------------------------
\* C15: a start command, in whichever state the session of its chat is, is
\* answered with the greeting, publishes no post and leaves that session
\* Idle, so that the next text message of the chat goes to fallback and is
\* not published.
C15_StartResets ==
    [][ resp'.op = "start" =>
        \A chat \in Chats :
          start(chat, "/start")
          => /\ resp'.detail = "greeting"
             /\ posts' = posts
             /\ fsm'[chat] = StateNone ]_vars

------------------------------------------------------------------------------
\* C16: a "new post" command in a chat that is not private is answered with
\* the guidance message and changes nothing: the session state of every chat
\* is as before and no post or tally row is created.
C16_NewPostOutsidePrivate ==
    [][ resp'.op = "newpost" =>
        \A chat \in Chats \ {"private"} :
          newpost(chat, "/newpost")
          => /\ resp'.detail = "private only"
             /\ fsm' = fsm
             /\ posts' = posts
             /\ reactions' = reactions ]_vars

\* the command has just been refused in the group chat while the private
\* session awaits a text and a post is stored
C16_Witness ==
    /\ resp.op = "newpost" /\ resp.detail = "private only"
    /\ fsm["private"] = NewPost_text
    /\ fsm["group"] = StateNone
    /\ posts # {}

------------------------------------------------------------------------------
\* C17: every initialize call, the first one or a later one at any point
\* between other operations, leaves both tables existing and every post row
\* and tally row as it was; and the tables, once created, exist ever after.
C17_InitIdempotent ==
    [][ /\ tables => tables'
        /\ resp'.op = "init_db" =>
             (init_db => /\ tables'
                         /\ posts' = posts
                         /\ reactions' = reactions) ]_vars

\* initialize has just been called again on a store that holds two posts and
\* raised tallies
C17_Witness ==
    /\ resp.op = "init_db"
    /\ Cardinality(posts) = 2
    /\ TotalCount > 0

------------------------------------------------------------------------------
\* the exceptions a store call raises in the model
StoreErrors == {"IntegrityError", "OperationalError"}

\* C20: when add_post fails while save_post publishes a text from
\* AwaitingText, the step stores no post and no tally row, sends no success
\* reply and leaves the session AwaitingText; as long as the failure is the
\* last thing the bot did, the private session is AwaitingText; and a text
\* sent to a session in AwaitingText whose store call succeeds (the resent
\* text) is published and answered with the success reply.
C20_FailedPublishKeepsSession ==
    /\ []((resp.op = "save_post" /\ resp.detail \in StoreErrors)
            => fsm["private"] = NewPost_text)
    /\ [][ resp'.op = "save_post" =>
           \A chat \in Chats, m_text \in MessageTexts :
             (strip(TextOf(m_text)) # <<>> /\ save_post(chat, "", m_text))
             => IF add_post(strip(TextOf(m_text))).error # ""
                THEN /\ posts' = posts
                     /\ reactions' = reactions
                     /\ fsm'[chat] = NewPost_text
                     /\ resp'.detail \in StoreErrors
                ELSE /\ PublishesOne(strip(TextOf(m_text)))
                     /\ fsm'[chat] = StateNone
                     /\ resp'.detail = "published" ]_vars

\* the store call of the bot has just failed on an id collision: the text is
\* not stored a second time and the session still awaits a text
C20_Witness ==
    /\ resp.op = "save_post" /\ resp.detail = "IntegrityError"
    /\ fsm["private"] = NewPost_text
    /\ Cardinality(posts) = 1

------------------------------------------------------------------------------
(* inc_reaction calls of concurrent tasks, next to a task that creates      *)
(* posts, on a store that holds one post with its three zero tallies.       *)

\* the kinds the reactors raise
ConcKinds == {"support", "hug"}

\* the texts add_post is called with: trimmed and non-empty
PostTexts == { strip(t) : t \in Texts } \ { <<>> }

InitInc ==
    /\ tables = TRUE
    /\ posts = StoreOf(1).posts
    /\ reactions = StoreOf(1).reactions
    /\ now = 1
    /\ rolledBack = FALSE
    /\ fsm = [c \in Chats |-> StateNone]
    /\ resp = Response("", 0, "", 0, <<>>)
    /\ tasks = IdleTasks

NextInc ==
    \/ \E r \in Reactors, p \in StoreOf(1).posts, rtype \in ConcKinds :
          inc_reaction_begin(r, p.id, rtype)
    \/ \E r \in Reactors : inc_reaction_update(r)
    \/ \E r \in Reactors : inc_reaction_commit(r)
    \/ \E text \in PostTexts : add_post_begin(text)
    \/ add_post_insert
    \/ add_post_seed
    \/ add_post_commit
    \/ Tick

SpecInc == InitInc /\ [][NextInc]_vars

\* the inc_reaction(post_id, rtype) calls that have returned
Completed(post_id, rtype) ==
    { r \in Reactors : /\ tasks.inc[r].pc = "done"
                       /\ tasks.inc[r].post_id = post_id
                       /\ tasks.inc[r].rtype = rtype }

\* C18: whatever the interleaving of the tasks at their awaits, every tally,
\* which starts at 0, is at every moment exactly as high as the number of
\* incrementReaction calls on it that have returned, so N calls leave it
\* exactly N higher; and no step lowers or removes a tally.
C18_NoLostUpdate ==
    /\ [](\A row \in reactions :
            row.count = Cardinality(Completed(row.post_id, row.type)))
    /\ [][ \A row \in reactions :
             \E q \in reactions' : /\ q.post_id = row.post_id
                                   /\ q.type = row.type
                                   /\ q.count >= row.count ]_vars

\* all but one of the calls on one tally have returned, the last one holds
\* its uncommitted UPDATE, and the INSERT of an add_post waits for the lock
C18_Witness ==
    \E row \in reactions, r \in Reactors :
        /\ row.count = MaxIncs - 1
        /\ tasks.inc[r].pc = "commit"
        /\ tasks.inc[r].post_id = row.post_id
        /\ tasks.inc[r].rtype = row.type
        /\ tasks.add.pc = "insert"

------------------------------------------------------------------------------
(* get_feed calls of one task next to add_post calls of another, on a store *)
(* that is empty or holds one post.                                         *)

\* the cursor and limit arguments of the get_feed calls
ReadCursors == { None, Some(MaxClock) }
ReadLimits == { 1, MaxClock }

InitRead ==
    /\ tables = TRUE
    /\ \E n \in 0 .. 1 :
          /\ posts = StoreOf(n).posts
          /\ reactions = StoreOf(n).reactions
    /\ now = 1
    /\ rolledBack = FALSE
    /\ fsm = [c \in Chats |-> StateNone]
    /\ resp = Response("", 0, "", 0, <<>>)
    /\ tasks = IdleTasks

NextRead ==
    \/ \E text \in PostTexts : add_post_begin(text)
    \/ add_post_insert
    \/ add_post_seed
    \/ add_post_commit
    \/ \E cursor \in ReadCursors, limit \in ReadLimits : get_feed_begin(cursor, limit)
    \/ get_feed_rows
    \/ get_feed_reactions
    \/ get_feed_return
    \/ Tick

SpecRead == InitRead /\ [][NextRead]_vars

\* every item of the feed carries the three kinds and no other
AllKinds(feed) ==
    \A i \in 1 .. Len(feed) : DOMAIN feed[i].reactions = REACTIONS

\* C19: whatever the interleaving of add_post with get_feed at their awaits,
\* every item get_feed has built, and every item of the list it returns,
\* carries all three reaction kinds.
C19_FeedItemsComplete ==
    /\ AllKinds(tasks.feed.out)
    /\ resp.op = "get_feed" => AllKinds(resp.feed)

\* get_feed has selected the post rows and not yet the tallies of the first
\* one, while add_post has inserted a post row and one of its tallies,
\* uncommitted
C19_Witness ==
    /\ tasks.feed.pc = "reactions"
    /\ Len(tasks.feed.rows) >= 1
    /\ tasks.feed.out = <<>>
    /\ tasks.add.pc = "seed"
    /\ tasks.add.seeded = 1

====
